---- MODULE Spec2Model ----
(***************************************************************************)
(* ZimbraBatchClient (src/batch-client/index.ts): the request router       *)
(* jsonRequest, the two DataLoader instances built by the constructor      *)
(* (batchDataLoader: batching and caching; dataLoader: caching only,       *)
(* batch: false), the two load functions batchDataHandler and dataHandler, *)
(* the shared sessionId and the notification handler.                      *)
(*                                                                         *)
(* A transport call (batchJsonRequest / jsonRequest of ../request) is an   *)
(* entry of `calls`; the environment settles it with a reply or a          *)
(* rejection.  The completion of a call is two callbacks, as in the code:  *)
(* the .then callback of the handler (session, notification, values), and  *)
(* after it the DataLoader callback that settles the callers' promises.    *)
(***************************************************************************)
EXTENDS Integers, Sequences, FiniteSets, TLC

\* Number of jsonRequest submissions explored.
MaxSubs == 3

\* Request option objects a caller can pass.  `id` is the identity of the
\* object (its reference); name and accountName are its content.  The
\* unscoped objects are structurally identical, and so are the scoped ones.
Reqs ==
    { [id |-> "o1", name |-> "GetInfo", accountName |-> ""],
      [id |-> "o2", name |-> "GetInfo", accountName |-> ""],
      [id |-> "o3", name |-> "GetInfo", accountName |-> ""],
      [id |-> "p1", name |-> "GetFolder", accountName |-> "b"],
      [id |-> "p2", name |-> "GetFolder", accountName |-> "b"] }

ReqIds == { r.id : r \in Reqs }

\* The order in which callers take new objects: an object is first passed
\* only after those before it of the same kind (objects of one kind differ
\* in identity only).
Earlier(r) ==
    CASE r.id = "o2" -> {"o1"}
      [] r.id = "o3" -> {"o1", "o2"}
      [] r.id = "p2" -> {"p1"}
      [] OTHER -> {}

\* header.context.session.id of the reply to call c when it carries a token;
\* "" stands for an absent token.
SessionTokens == <<"s2", "s3", "s4", "s5", "s6">>
ReplyTokens(c) == {"", SessionTokens[c]}

\* One element of a reply: a success payload or an error-shaped item.
ReplyItems == {"ok", "err"}

VARIABLES
    sessionId,            \* this.sessionId
    notificationHandler,  \* TRUE iff options.notificationHandler was given
    handlerLog,           \* calls for which the handler was invoked, in order
    batchDataLoader,      \* [queue, promiseCache] of this.batchDataLoader
    dataLoader,           \* [promiseCache] of this.dataLoader (queue of one)
    promises,             \* the promises the two loaders have created
    calls,                \* the transport calls issued so far
    submissions,          \* the jsonRequest invocations so far
    clock                 \* number of dispatches and completions so far

vars == <<sessionId, notificationHandler, handlerLog, batchDataLoader,
          dataLoader, promises, calls, submissions, clock>>

NoPromise == 0
NoValue == [kind |-> "none", call |-> 0, idx |-> 0]
Pending == [state |-> "pending", value |-> NoValue]

EmptyCache == [k \in ReqIds |-> NoPromise]

Init ==
    /\ sessionId = "1"
    /\ notificationHandler \in BOOLEAN
    /\ handlerLog = <<>>
    /\ batchDataLoader = [queue |-> <<>>, promiseCache |-> EmptyCache]
    /\ dataLoader = [promiseCache |-> EmptyCache]
    /\ promises = <<>>
    /\ calls = <<>>
    /\ submissions = <<>>
    /\ clock = 0

----------------------------------------------------------------------------
\* Pieces of the handlers.

\* `sessionId: this.sessionId` of the outgoing envelope.
StaleSnapshot == "1"
SessionSnapshot == sessionId

\* if (sessionId) { this.sessionId = sessionId; }
KeepSessionId(token) == sessionId
ClearSessionId(token) == token
NextSessionId(token) == IF token # "" THEN token ELSE sessionId

\* if (notifications && this.notificationHandler) { ... }
NotifyAlways(notify) == notificationHandler
ShouldNotify(notify) == notify /\ notificationHandler

\* isError(r) ? r : r.body, for the item at position i of call c.
Value(c, i, item) ==
    [kind |-> IF item = "err" THEN "error" ELSE "body", call |-> c, idx |-> i]

\* response.requests.map((r, i) => isError(r) ? r : r.body)
FirstErr(items) ==
    CHOOSE i \in 1..Len(items) :
        items[i] = "err" /\ \A j \in 1..(i - 1) : items[j] = "ok"
BatchValuesFailFast(c, items) ==
    IF \E i \in 1..Len(items) : items[i] = "err"
    THEN [i \in 1..Len(items) |-> Value(c, FirstErr(items), "err")]
    ELSE [i \in 1..Len(items) |-> Value(c, i, items[i])]
BatchValues(c, items) == [i \in 1..Len(items) |-> Value(c, i, items[i])]

\* DataLoader: value instanceof Error ? reject(value) : resolve(value)
SettleWith(v) ==
    [state |-> IF v.kind = "error" THEN "rejected" ELSE "resolved", value |-> v]

\* DataLoader failedDispatch: every promise of the call rejects with the error.
TransportError(c) == [kind |-> "transport", call |-> c, idx |-> 0]
FailedFirstOnly(c, i) ==
    IF i = 1 THEN [state |-> "rejected", value |-> TransportError(c)]
    ELSE [state |-> "resolved", value |-> Value(c, i, "ok")]
FailedDispatchHangs(c, i) == Pending
FailedDispatch(c, i) == [state |-> "rejected", value |-> TransportError(c)]

NewCall(kind, reqs, ps) ==
    [kind |-> kind, requests |-> reqs, promises |-> ps,
     snap |-> SessionSnapshot, transport |-> "inflight", settled |-> FALSE,
     reply |-> <<>>, token |-> "", notify |-> FALSE, values |-> <<>>,
     dispatchedAt |-> clock + 1, completedAt |-> 0]

----------------------------------------------------------------------------
\* jsonRequest: accountName ? this.dataLoader.load(options)
\*                          : this.batchDataLoader.load(options)

UseBatchAlways(options) == FALSE
UseDataLoader(options) == options.accountName # ""

Submission(options, p, path) ==
    [req |-> options, promise |-> p, path |-> path,
     window |-> Cardinality({c \in DOMAIN calls : calls[c].kind = "batch"}) + 1]

\* dataLoader.load with batch: false: a cached promise is returned, otherwise
\* the queue of one is dispatched at once through dataHandler.
DataLoaderLoad(options) ==
    LET cached == dataLoader.promiseCache[options.id]
        p == Len(promises) + 1
    IN  IF cached # NoPromise
        THEN /\ submissions' = Append(submissions, Submission(options, cached, "single"))
             /\ UNCHANGED <<dataLoader, promises, calls, clock>>
        ELSE /\ promises' = Append(promises, Pending)
             /\ dataLoader' = [dataLoader EXCEPT !.promiseCache[options.id] = p]
             /\ calls' = Append(calls, NewCall("single", <<options>>, <<p>>))
             /\ clock' = clock + 1
             /\ submissions' = Append(submissions, Submission(options, p, "single"))

\* batchDataLoader.load: a cached promise is returned, otherwise the key is
\* queued; the first key of a queue schedules dispatchQueue.
BatchDataLoaderLoad(options) ==
    LET cached == batchDataLoader.promiseCache[options.id]
        p == Len(promises) + 1
    IN  IF cached # NoPromise
        THEN /\ submissions' = Append(submissions, Submission(options, cached, "batch"))
             /\ UNCHANGED <<batchDataLoader, promises>>
        ELSE /\ promises' = Append(promises, Pending)
             /\ batchDataLoader' =
                    [queue |-> Append(batchDataLoader.queue, [key |-> options, promise |-> p]),
                     promiseCache |-> [batchDataLoader.promiseCache EXCEPT ![options.id] = p]]
             /\ submissions' = Append(submissions, Submission(options, p, "batch"))

Submitted(id) == \E i \in DOMAIN submissions : submissions[i].req.id = id

jsonRequest(options) ==
    /\ Len(submissions) < MaxSubs
    /\ \A id \in Earlier(options) : Submitted(id)
    /\ IF UseDataLoader(options)
       THEN /\ DataLoaderLoad(options)
            /\ UNCHANGED batchDataLoader
       ELSE /\ BatchDataLoaderLoad(options)
            /\ UNCHANGED <<dataLoader, calls, clock>>
    /\ UNCHANGED <<sessionId, notificationHandler, handlerLog>>

\* dispatchQueue replaces the queue it took by an empty one.
QueueKept(q) == q
QueueAfterDispatch(q) == <<>>

\* The scheduled dispatchQueue of batchDataLoader: the queue is taken and
\* emptied, and batchDataHandler issues one batchJsonRequest for its keys.
DispatchQueue ==
    LET q == batchDataLoader.queue
    IN  /\ q # <<>>
        /\ calls' = Append(calls,
               NewCall("batch", [i \in 1..Len(q) |-> q[i].key],
                                [i \in 1..Len(q) |-> q[i].promise]))
        /\ batchDataLoader' = [batchDataLoader EXCEPT !.queue = QueueAfterDispatch(q)]
        /\ clock' = clock + 1
        /\ UNCHANGED <<sessionId, notificationHandler, handlerLog, dataLoader,
                       promises, submissions>>

----------------------------------------------------------------------------
\* Completion of a transport call.

Completed(c, items, token, notify, values) ==
    /\ sessionId' = NextSessionId(token)
    /\ handlerLog' = IF ShouldNotify(notify) THEN Append(handlerLog, c) ELSE handlerLog
    /\ calls' = [calls EXCEPT ![c] =
           [@ EXCEPT !.transport = "resolved", !.reply = items, !.token = token,
                     !.notify = notify, !.values = values,
                     !.completedAt = clock + 1]]
    /\ clock' = clock + 1
    /\ UNCHANGED <<notificationHandler, batchDataLoader, dataLoader, promises,
                   submissions>>

\* batchJsonRequest(...).then(response => ...) of batchDataHandler.  The
\* transport (../request) answers with one item per request, in request order.
BatchDataHandlerThen(c) ==
    /\ calls[c].kind = "batch"
    /\ calls[c].transport = "inflight"
    /\ \E items \in [1..Len(calls[c].requests) -> ReplyItems],
          token \in ReplyTokens(c), notify \in BOOLEAN :
           Completed(c, items, token, notify, BatchValues(c, items))

\* jsonRequest(...).then(response => ...) of dataHandler.  An error-shaped
\* response has no header: no token and no notification are read from it.
DataHandlerThen(c) ==
    /\ calls[c].kind = "single"
    /\ calls[c].transport = "inflight"
    /\ \/ \E token \in ReplyTokens(c), notify \in BOOLEAN :
             Completed(c, <<"ok">>, token, notify, <<Value(c, 1, "ok")>>)
       \/ Completed(c, <<"err">>, "", FALSE, <<Value(c, 1, "err")>>)

TransportRejectResets(c) ==
    /\ calls[c].transport = "inflight"
    /\ calls' = [calls EXCEPT ![c] =
           [@ EXCEPT !.transport = "rejected", !.completedAt = clock + 1]]
    /\ clock' = clock + 1
    /\ sessionId' = "1"
    /\ UNCHANGED <<notificationHandler, handlerLog, batchDataLoader,
                   dataLoader, promises, submissions>>

\* The promise of batchJsonRequest or jsonRequest rejects: .then is skipped.
TransportReject(c) ==
    /\ calls[c].transport = "inflight"
    /\ calls' = [calls EXCEPT ![c] =
           [@ EXCEPT !.transport = "rejected", !.completedAt = clock + 1]]
    /\ clock' = clock + 1
    /\ UNCHANGED <<sessionId, notificationHandler, handlerLog, batchDataLoader,
                   dataLoader, promises, submissions>>

\* DataLoader's callback is chained on the promise the handler returns: it
\* runs once the transport promise has settled and .then has run (or was
\* skipped by a rejection).
DeliverableEarly(c) == TRUE
Deliverable(c) == calls[c].transport # "inflight"

PositionOf(c, p) == CHOOSE i \in 1..Len(calls[c].promises) : calls[c].promises[i] = p

ClearKeys(cache, c) ==
    [k \in ReqIds |->
        IF \E i \in 1..Len(calls[c].requests) : calls[c].requests[i].id = k
        THEN NoPromise ELSE cache[k]]

\* DataLoader's callback on the handler's promise: each queued promise is
\* resolved or rejected with the value of its position; on a rejection
\* failedDispatch clears the keys from the cache and rejects every promise.
DataLoaderSettle(c) ==
    /\ Deliverable(c)
    /\ ~calls[c].settled
    /\ calls' = [calls EXCEPT ![c].settled = TRUE]
    /\ promises' =
          [p \in 1..Len(promises) |->
              IF \E i \in 1..Len(calls[c].promises) : calls[c].promises[i] = p
              THEN IF calls[c].transport = "resolved"
                   THEN SettleWith(calls[c].values[PositionOf(c, p)])
                   ELSE FailedDispatch(c, PositionOf(c, p))
              ELSE promises[p]]
    /\ IF calls[c].transport = "rejected"
       THEN IF calls[c].kind = "batch"
            THEN /\ batchDataLoader' =
                       [batchDataLoader EXCEPT !.promiseCache = ClearKeys(@, c)]
                 /\ UNCHANGED dataLoader
            ELSE /\ dataLoader' = [dataLoader EXCEPT !.promiseCache = ClearKeys(@, c)]
                 /\ UNCHANGED batchDataLoader
       ELSE UNCHANGED <<batchDataLoader, dataLoader>>
    /\ UNCHANGED <<sessionId, notificationHandler, handlerLog, submissions, clock>>

Next ==
    \/ \E options \in Reqs : jsonRequest(options)
    \/ DispatchQueue
    \/ \E c \in DOMAIN calls : BatchDataHandlerThen(c)
    \/ \E c \in DOMAIN calls : DataHandlerThen(c)
    \/ \E c \in DOMAIN calls : TransportReject(c)
    \/ \E c \in DOMAIN calls : DataLoaderSettle(c)

Spec == Init /\ [][Next]_vars

\* The same client with fewer submissions, and the scheduling the code relies
\* on: the job that dispatches the queue runs, every transport promise
\* settles, and DataLoader's callback on a settled handler promise runs.
MaxLiveSubs == 2

LiveNext ==
    \/ \E options \in Reqs : Len(submissions) < MaxLiveSubs /\ jsonRequest(options)
    \/ DispatchQueue
    \/ \E c \in DOMAIN calls : BatchDataHandlerThen(c)
    \/ \E c \in DOMAIN calls : DataHandlerThen(c)
    \/ \E c \in DOMAIN calls : TransportReject(c)
    \/ \E c \in DOMAIN calls : DataLoaderSettle(c)

TransportSettles(c) ==
    /\ c \in DOMAIN calls
    /\ (BatchDataHandlerThen(c) \/ DataHandlerThen(c) \/ TransportReject(c))

LiveSpec ==
    /\ Init /\ [][LiveNext]_vars
    /\ WF_vars(DispatchQueue)
    /\ \A c \in 1..MaxLiveSubs : WF_vars(TransportSettles(c))
    /\ \A c \in 1..MaxLiveSubs : WF_vars(c \in DOMAIN calls /\ DataLoaderSettle(c))

----------------------------------------------------------------------------
\* History read off `calls`.

CallIds == DOMAIN calls
IsBatch(c) == calls[c].kind = "batch"
InFlight(c) == calls[c].transport = "inflight"
IsResolved(c) == calls[c].transport = "resolved"
IsRejected(c) == calls[c].transport = "rejected"
CarriesToken(c) == IsResolved(c) /\ calls[c].token # ""
DispatchedAfter(c2, c1) ==
    ~InFlight(c1) /\ calls[c2].dispatchedAt > calls[c1].completedAt

\* Calls whose token-carrying reply was handled strictly between t1 and t2.
UpdatesBetween(t1, t2) ==
    {c \in CallIds : CarriesToken(c) /\ t1 < calls[c].completedAt
                                     /\ calls[c].completedAt < t2}

\* The session value in force just before instant t: the token of the last
\* token-carrying reply handled before t, the placeholder if there is none.
SessionAt(t) ==
    LET U == UpdatesBetween(0, t)
    IN  IF U = {} THEN "1"
        ELSE calls[CHOOSE c \in U :
                     \A d \in U : calls[d].completedAt <= calls[c].completedAt].token

BatchIds == {c \in CallIds : IsBatch(c)}
\* The w-th batch call, in dispatch order.
BatchNo(w) ==
    CHOOSE c \in BatchIds : Cardinality({d \in BatchIds : d <= c}) = w

UnscopedSubs == SelectSeq(submissions, LAMBDA s : s.req.accountName = "")
ScopedSubs == SelectSeq(submissions, LAMBDA s : s.req.accountName # "")
WindowSubs(w) == SelectSeq(UnscopedSubs, LAMBDA s : s.window = w)

RECURSIVE SentUpTo(_)
\* The requests of the transport calls 1..c, batch calls only, in order.
SentUpTo(c) ==
    IF c = 0 THEN <<>>
    ELSE SentUpTo(c - 1) \o (IF IsBatch(c) THEN calls[c].requests ELSE <<>>)

QueuedKeys ==
    [i \in 1..Len(batchDataLoader.queue) |-> batchDataLoader.queue[i].key]

\* The outcome position i of a handled reply of call c gives its caller.
Follows(pr, c, i) ==
    IF calls[c].reply[i] = "err"
    THEN pr.state = "rejected" /\ pr.value = [kind |-> "error", call |-> c, idx |-> i]
    ELSE pr.state = "resolved" /\ pr.value = [kind |-> "body", call |-> c, idx |-> i]

----------------------------------------------------------------------------
\* C1: the N unscoped submissions of one scheduling opportunity (window) go
\* out in exactly one batchJsonRequest that carries all N in submission
\* order, and once the reply is delivered the i-th submitter's promise
\* follows the i-th reply item.
C1_OneCallCarriesWindow ==
    \A w \in 1..Cardinality(BatchIds) :
        LET b == BatchNo(w)
            subs == WindowSubs(w)
        IN  /\ Len(calls[b].requests) = Len(subs)
            /\ \A i \in 1..Len(subs) :
                  /\ i <= Len(calls[b].requests)
                  /\ calls[b].requests[i] = subs[i].req
                  /\ (IsResolved(b) /\ calls[b].settled)
                         => Follows(promises[subs[i].promise], b, i)

\* C2: in a delivered batch reply exactly the callers at the positions of
\* error-shaped items are rejected, each with its own item, and every other
\* caller is resolved with its own item's body.
C2_FailureIsolation ==
    \A c \in CallIds :
        (IsBatch(c) /\ IsResolved(c) /\ calls[c].settled) =>
            \A i \in 1..Len(calls[c].requests) :
                Follows(promises[calls[c].promises[i]], c, i)

\* A delivered batch of three whose first and last items failed.
C2_Witness ==
    \E c \in CallIds :
        /\ IsBatch(c) /\ IsResolved(c) /\ calls[c].settled
        /\ calls[c].reply = <<"err", "ok", "err">>
        /\ promises[calls[c].promises[1]].state = "rejected"
        /\ promises[calls[c].promises[2]].state = "resolved"
        /\ promises[calls[c].promises[3]].state = "rejected"

\* C3: when the transport promise of a call (batch or single) rejects, every
\* caller of that call is rejected with that call's transport failure and
\* none is resolved.
C3_TransportFailureRejectsAll ==
    \A c \in CallIds :
        (IsRejected(c) /\ calls[c].settled) =>
            \A i \in 1..Len(calls[c].promises) :
                /\ promises[calls[c].promises[i]].state = "rejected"
                /\ promises[calls[c].promises[i]].value = TransportError(c)

\* A rejected batch of at least two and a rejected single call, both delivered.
C3_Witness ==
    /\ \E c \in CallIds :
          IsBatch(c) /\ IsRejected(c) /\ calls[c].settled /\ Len(calls[c].promises) >= 2
    /\ \E c \in CallIds : ~IsBatch(c) /\ IsRejected(c) /\ calls[c].settled

\* C4: every scoped submission produces its own jsonRequest call: there are
\* as many single calls as scoped submissions, each carries exactly one
\* scoped request, and no batch call carries a scoped request.
C4_OneCallPerScopedSubmission ==
    /\ Cardinality({c \in CallIds : ~IsBatch(c)}) = Len(ScopedSubs)
    /\ \A c \in CallIds :
          IF IsBatch(c)
          THEN \A i \in 1..Len(calls[c].requests) : calls[c].requests[i].accountName = ""
          ELSE Len(calls[c].requests) = 1 /\ calls[c].requests[1].accountName # ""

C6_AtMostOneInFlight == Cardinality({c \in CallIds : InFlight(c)}) <= 1

\* C6 as amended: calls may be in flight together; the session update of a
\* call is applied at its completion, so a call dispatched after that
\* completion carries that update or a later one, never an older value.
C6_UpdateAppliedBeforeLaterDispatch ==
    \A c1 \in CallIds : \A c2 \in CallIds :
        (CarriesToken(c1) /\ DispatchedAfter(c2, c1)) =>
            \E c3 \in CallIds :
                /\ CarriesToken(c3)
                /\ calls[c3].token = calls[c2].snap
                /\ calls[c1].completedAt <= calls[c3].completedAt
                /\ calls[c3].completedAt < calls[c2].dispatchedAt

\* Two calls were in flight together, and a third was dispatched after the
\* first one's token-carrying reply.
C6_Witness ==
    \E c1 \in CallIds : \E c2 \in CallIds : \E c3 \in CallIds :
        /\ calls[c1].dispatchedAt < calls[c2].dispatchedAt
        /\ CarriesToken(c1)
        /\ calls[c2].dispatchedAt < calls[c1].completedAt
        /\ DispatchedAfter(c3, c1)
        /\ calls[c3].snap = calls[c1].token

\* C7 as stated: a batch B2 dispatched after batch B1 is never dispatched
\* before B1's session update was applied, also when B2's window closes
\* while B1 is in flight.
C7_BatchWaitsForPreviousUpdate ==
    \A b1 \in BatchIds : \A b2 \in BatchIds :
        (b1 < b2 /\ CarriesToken(b1)) => DispatchedAfter(b2, b1)

\* C7 as amended: a batch B2 dispatched after B1's completion does not carry
\* the session value that was in force before B1's update; a B2 whose window
\* closes while B1 is in flight is dispatched with the value in force at that
\* moment, which B1's update has not reached.
C7_BatchSnapshotAtDispatch ==
    \A b1 \in BatchIds : \A b2 \in BatchIds :
        (b1 < b2 /\ CarriesToken(b1)) =>
            /\ calls[b2].snap = SessionAt(calls[b2].dispatchedAt)
            /\ IF DispatchedAfter(b2, b1)
               THEN calls[b2].snap # SessionAt(calls[b1].completedAt)
               ELSE calls[b2].snap # calls[b1].token

\* Three batches: the second left while the first was in flight, the third
\* after the first one's token-carrying reply.
C7_Witness ==
    \E b1 \in BatchIds : \E b2 \in BatchIds : \E b3 \in BatchIds :
        /\ b1 < b2 /\ b2 < b3
        /\ CarriesToken(b1)
        /\ ~DispatchedAfter(b2, b1)
        /\ DispatchedAfter(b3, b1)
        /\ calls[b3].snap = calls[b1].token

\* C8: no caller of a batch has its result delivered before the batch's
\* reply was handled; at delivery and after it sessionId holds the batch's
\* token (or a later one), and the handler has been invoked for the batch's
\* notification.
C8_HeadersBeforeDelivery ==
    \A c \in BatchIds :
        /\ (\E i \in 1..Len(calls[c].promises) :
               promises[calls[c].promises[i]].state # "pending") => ~InFlight(c)
        /\ (calls[c].settled /\ CarriesToken(c)) =>
               \E c3 \in CallIds :
                   /\ CarriesToken(c3)
                   /\ calls[c3].token = sessionId
                   /\ calls[c3].completedAt >= calls[c].completedAt
        /\ (calls[c].settled /\ IsResolved(c) /\ calls[c].notify /\ notificationHandler) =>
               \E k \in 1..Len(handlerLog) : handlerLog[k] = c

\* A delivered batch whose reply carried a token and a notification, with a
\* handler registered and sessionId equal to that token.
C8_Witness ==
    \E c \in BatchIds :
        /\ calls[c].settled /\ CarriesToken(c) /\ calls[c].notify
        /\ notificationHandler
        /\ sessionId = calls[c].token
        /\ promises[calls[c].promises[1]].state = "resolved"

\* C9: with a handler registered it is invoked exactly once for every
\* completed call (batch or single) whose reply carried a notification and
\* for no other call; without a handler it is never invoked.
C9_HandlerOncePerNotifyingCall ==
    LET N == {c \in CallIds : IsResolved(c) /\ calls[c].notify}
    IN  IF notificationHandler
        THEN /\ Len(handlerLog) = Cardinality(N)
             /\ \A k \in 1..Len(handlerLog) : handlerLog[k] \in N
             /\ \A c \in N : Cardinality({k \in 1..Len(handlerLog) : handlerLog[k] = c}) = 1
        ELSE handlerLog = <<>>

\* A batch and a single call both notified the handler, and a third call
\* completed without a notification.
C9_Witness ==
    /\ notificationHandler
    /\ Len(handlerLog) = 2
    /\ \E c \in CallIds : IsBatch(c) /\ IsResolved(c) /\ calls[c].notify
    /\ \E c \in CallIds : ~IsBatch(c) /\ IsResolved(c) /\ calls[c].notify
    /\ \E c \in CallIds : IsResolved(c) /\ ~calls[c].notify

\* C10: every unscoped submission appears exactly once, in arrival order, in
\* the input list of a batch call (or in the open window until it is sent).
C10_NoDropNoDedup ==
    SentUpTo(Len(calls)) \o QueuedKeys =
        [i \in 1..Len(UnscopedSubs) |-> UnscopedSubs[i].req]

----------------------------------------------------------------------------
\* Where request objects and promises have gone.

\* The calls of kind k that carry the request object r.
CallsCarrying(r, k) ==
    {c \in CallIds : calls[c].kind = k
                     /\ \E i \in 1..Len(calls[c].requests) : calls[c].requests[i] = r}
Queued(r) == \E i \in 1..Len(QueuedKeys) : QueuedKeys[i] = r

\* Number of places of transport calls, and of the open window, filled by r.
RECURSIVE PlacesUpTo(_, _)
PlacesUpTo(r, c) ==
    IF c = 0 THEN 0
    ELSE PlacesUpTo(r, c - 1)
         + Cardinality({i \in 1..Len(calls[c].requests) : calls[c].requests[i] = r})
Places(r) ==
    PlacesUpTo(r, Len(calls))
    + Cardinality({i \in 1..Len(QueuedKeys) : QueuedKeys[i] = r})
TimesSubmitted(r) == Cardinality({i \in DOMAIN submissions : submissions[i].req = r})

\* C11: jsonRequest hands a request with a non-empty accountName to the
\* single-call loader and any other request to the batch loader, whatever
\* was submitted before: the request is carried by a jsonRequest call in the
\* first case, by the open window or a batchJsonRequest call in the second,
\* and never by the other path.
C11_RoutedByAccountName ==
    \A i \in DOMAIN submissions :
        LET r == submissions[i].req
        IN  IF r.accountName # ""
            THEN /\ submissions[i].path = "single"
                 /\ CallsCarrying(r, "single") # {}
                 /\ CallsCarrying(r, "batch") = {} /\ ~Queued(r)
            ELSE /\ submissions[i].path = "batch"
                 /\ (CallsCarrying(r, "batch") # {} \/ Queued(r))
                 /\ CallsCarrying(r, "single") = {}

\* Scoped and unscoped submissions interleaved on one client: unscoped,
\* scoped, unscoped, with the scoped call and one batch issued.
C11_Witness ==
    /\ Len(submissions) = 3
    /\ submissions[1].req.accountName = ""
    /\ submissions[2].req.accountName # ""
    /\ submissions[3].req.accountName = ""
    /\ \E c \in CallIds : IsBatch(c) /\ Len(calls[c].requests) = 2
    /\ \E c \in CallIds : ~IsBatch(c)

\* C13: a request fills at most as many places in transport calls as it was
\* submitted: nothing is sent again after an item-level or a transport-level
\* failure unless the caller submits it again, and every promise belongs to
\* one call only.
C13_NoAutomaticRetry ==
    /\ \A r \in Reqs : Places(r) <= TimesSubmitted(r)
    /\ \A c \in CallIds : \A d \in CallIds :
          (c # d) =>
              \A i \in 1..Len(calls[c].promises) : \A j \in 1..Len(calls[d].promises) :
                  calls[c].promises[i] # calls[d].promises[j]

\* A batch failed as a whole and a call had an error item, both delivered,
\* and the requests of both were sent once only.
C13_Witness ==
    /\ \E c \in CallIds : IsRejected(c) /\ calls[c].settled
    /\ \E c \in CallIds :
          IsResolved(c) /\ calls[c].settled /\ calls[c].reply[1] = "err"
    /\ \A r \in Reqs : Places(r) <= 1
    /\ batchDataLoader.queue = <<>>

\* C14: the request list of a dispatched batch is frozen: a request
\* submitted after the dispatch of batch B is not in B, gets no outcome of
\* B (its promise is not one of B's), and goes to a later window.
C14_DispatchedBatchFrozen ==
    \A i \in DOMAIN submissions :
        (submissions[i].req.accountName = "") =>
            /\ \A w \in 1..Cardinality(BatchIds) :
                  (w < submissions[i].window) =>
                      \A k \in 1..Len(calls[BatchNo(w)].promises) :
                          calls[BatchNo(w)].promises[k] # submissions[i].promise
            /\ \/ \E k \in 1..Len(batchDataLoader.queue) :
                     batchDataLoader.queue[k].promise = submissions[i].promise
               \/ \E w \in 1..Cardinality(BatchIds) :
                     /\ w >= submissions[i].window
                     /\ \E k \in 1..Len(calls[BatchNo(w)].promises) :
                           calls[BatchNo(w)].promises[k] = submissions[i].promise

C17_OutcomeByOwnItem ==
    \A c \in CallIds : \A d \in CallIds :
        (IsResolved(c) /\ calls[c].settled /\ IsResolved(d) /\ calls[d].settled) =>
            \A i \in 1..Len(calls[c].reply) : \A j \in 1..Len(calls[d].reply) :
                LET pc == promises[calls[c].promises[i]]
                    pd == promises[calls[d].promises[j]]
                IN  /\ pc.value.call = c /\ pc.value.idx = i
                    /\ (calls[c].reply[i] = calls[d].reply[j]) =>
                          (pc.state = pd.state /\ pc.value.kind = pd.value.kind)
                    /\ (calls[c].reply[i] # calls[d].reply[j]) => pc.state # pd.state

\* R1 and R2 in one batch answered <<ok, err>>, R3 scoped and answered with
\* an error: R1 resolved, R2 and R3 rejected.
C17_Witness ==
    \E b \in BatchIds : \E s \in CallIds :
        /\ ~IsBatch(s)
        /\ IsResolved(b) /\ calls[b].settled /\ calls[b].reply = <<"ok", "err">>
        /\ IsResolved(s) /\ calls[s].settled /\ calls[s].reply = <<"err">>
        /\ promises[calls[b].promises[1]].state = "resolved"
        /\ promises[calls[b].promises[2]].state = "rejected"
        /\ promises[calls[s].promises[1]].state = "rejected"

\* C18: the submission of a scoped request issues, in the same step, a
\* jsonRequest call carrying that request and the sessionId of that moment,
\* the unscoped requests of the open window still waiting for their batch.
C18_ScopedDispatchedOnSubmission ==
    [][ ( /\ Len(submissions') = Len(submissions) + 1
          /\ submissions'[Len(submissions')].req.accountName # "" )
        => ( /\ Len(calls') = Len(calls) + 1
             /\ calls'[Len(calls')].kind = "single"
             /\ calls'[Len(calls')].requests = <<submissions'[Len(submissions')].req>>
             /\ calls'[Len(calls')].promises = <<submissions'[Len(submissions')].promise>>
             /\ calls'[Len(calls')].snap = sessionId
             /\ batchDataLoader'.queue = batchDataLoader.queue ) ]_vars

\* C19: the step in which a transport promise rejects, and the step in which
\* that failure is delivered to the callers, change neither sessionId nor
\* the handler's invocations.
C19_FailureLeavesSharedState ==
    [][ \A c \in DOMAIN calls :
          ( \/ (InFlight(c) /\ calls'[c].transport = "rejected")
            \/ (IsRejected(c) /\ ~calls[c].settled /\ calls'[c].settled) )
          => (sessionId' = sessionId /\ handlerLog' = handlerLog) ]_vars

\* A call failed and was delivered after a token and a notification had been
\* received: both are as the earlier reply left them.
C19_Witness ==
    \E c \in CallIds : \E d \in CallIds :
        /\ CarriesToken(c) /\ calls[c].notify /\ notificationHandler
        /\ IsRejected(d) /\ calls[d].settled
        /\ calls[d].completedAt > calls[c].completedAt
        /\ sessionId = calls[c].token
        /\ handlerLog = <<c>>

\* The promise handed to the i-th submission is settled as its call settled
\* for its position: by the reply item, or by the transport failure.
SettledAsItem(i) ==
    /\ i \in DOMAIN submissions
    /\ LET p == submissions[i].promise
       IN  \E c \in CallIds : \E k \in 1..Len(calls[c].promises) :
               /\ calls[c].promises[k] = p
               /\ calls[c].settled
               /\ IF IsResolved(c)
                  THEN Follows(promises[p], c, k)
                  ELSE promises[p] = [state |-> "rejected", value |-> TransportError(c)]

\* C12: every transport promise settling, the promise of every submission
\* is eventually settled as its call settled for its item, and a settled
\* promise never changes again.
C12_EverySubmissionSettles ==
    /\ \A i \in 1..MaxLiveSubs :
          [](Len(submissions) >= i => <>SettledAsItem(i))
    /\ [][\A p \in DOMAIN promises :
            promises[p].state # "pending" => promises'[p] = promises[p]]_vars

\* Two submissions, both settled: one by a transport failure, one by its
\* reply item.
C12_Witness ==
    /\ Len(submissions) = 2
    /\ SettledAsItem(1) /\ SettledAsItem(2)
    /\ \E i \in 1..2 : promises[submissions[i].promise].value.kind = "transport"
    /\ \E i \in 1..2 : promises[submissions[i].promise].value.kind = "body"

====
